---- MODULE Spec2Model ----
(***************************************************************************)
(* A model of nn3.py: the GameEngine tick loop, the InputMapModule command *)
(* registry and the MapGridModule room grid.                               *)
(*                                                                         *)
(* Python values are modelled as follows.  Objects are named by strings    *)
(* and carry their class; attribute and method lookup follows the class    *)
(* definitions of the source.  An optional integer is a sequence of length *)
(* at most one (<<>> is None).  A text line is a sequence of characters.   *)
(* A list of lists grid[y][x] is a function over 0-based indices.          *)
(***************************************************************************)
EXTENDS Integers, Sequences, FiniteSets, TLC

\* ------------------------------------------------------------------ bounds
\* Largest grid area size_x * size_y constructed in SpecGrid.
MaxCells == 4
\* Largest number of modules registered with the engine.
MaxModules == 2
\* Largest number of ticks the run loop is followed for.
MaxTicks == 2
\* Largest number of lines waiting on standard input.
MaxInput == 2
\* Largest number of add_command calls followed in SpecInput.
MaxAdds == 3

\* ------------------------------------------------------- the class model
None == "None"

\* The objects of main, a second QuitCommand, a PlayerPiece, and look1: an
\* instance of a concrete Command subclass that defines only what the
\* abstract class demands (update, without effect on the engine) and is
\* constructed with the trigger 'look'.  quit_module is an instance of a
\* concrete Module subclass whose execute calls quit1.update(): the way a
\* module that works reaches a command's effect.
Objects ==
  {"map_module", "input_map_module", "quit_module", "room1", "room2",
   "player", "quit1", "quit2", "look1"}

ClassOf(obj) ==
  CASE obj = "map_module" -> "MapGridModule"
    [] obj = "input_map_module" -> "InputMapModule"
    [] obj = "quit_module" -> "QuitModule"
    [] obj \in {"room1", "room2"} -> "RoomPiece"
    [] obj = "player" -> "PlayerPiece"
    [] obj \in {"quit1", "quit2"} -> "QuitCommand"
    [] obj = "look1" -> "LookCommand"
    [] OTHER -> "NoneType"

\* The base class of a class ("object" at the top of the hierarchy).
Base(cls) ==
  CASE cls \in {"InputMapModule", "MapGridModule", "QuitModule"} -> "Module"
    [] cls \in {"PlayerPiece", "RoomPiece", "Command"} -> "Piece"
    [] cls \in {"QuitCommand", "LookCommand"} -> "Command"
    [] cls \in {"AttributeError", "EOFError", "IndexError", "TypeError"} ->
         "Exception"
    [] cls \in {"Exception", "KeyboardInterrupt"} -> "BaseException"
    [] OTHER -> "object"

RECURSIVE IsSubclass(_, _)
IsSubclass(cls, of) ==
  IF cls = of THEN TRUE
  ELSE IF cls = "object" THEN FALSE
  ELSE IsSubclass(Base(cls), of)

\* A registration that does not check the class of its argument.
isinstance_unchecked(obj, cls) == TRUE

isinstance(obj, cls) == IsSubclass(ClassOf(obj), cls)

\* The methods a class body defines.
Methods(cls) ==
  CASE cls = "Module" -> {"execute"}
    [] cls = "Piece" -> {"__init__", "update"}
    [] cls = "PlayerPiece" -> {"__init__", "update"}
    [] cls = "InputMapModule" ->
         {"__init__", "add_command", "process_command", "execute"}
    [] cls = "Command" -> {"__init__", "validate", "update"}
    [] cls = "QuitCommand" -> {"__init__", "update"}
    [] cls = "LookCommand" -> {"__init__", "update"}
    [] cls = "QuitModule" -> {"__init__", "execute"}
    [] cls = "RoomPiece" -> {"__init__", "describe_room", "update"}
    [] cls = "MapGridModule" ->
         {"__init__", "add_to_first_empty_space", "add_room", "remove_room",
          "execute"}
    [] OTHER -> {}

RECURSIVE ClassAttrs(_)
ClassAttrs(cls) ==
  IF cls = "object" THEN {} ELSE Methods(cls) \cup ClassAttrs(Base(cls))

\* The attributes the constructors store on an instance.
InstanceAttrs(cls) ==
  CASE cls = "RoomPiece" -> {"attributes"}
    [] cls = "PlayerPiece" -> {"attributes", "data"}
    [] cls = "QuitCommand" -> {"trigger", "engine"}
    [] cls = "LookCommand" -> {"trigger"}
    [] cls = "InputMapModule" -> {"commands"}
    [] cls = "QuitModule" -> {"command"}
    [] cls = "MapGridModule" -> {"size_vector", "map_grid"}
    [] OTHER -> {}

\* obj.name resolves iff the instance or its class hierarchy has the name.
HasAttr(obj, name) ==
  name \in InstanceAttrs(ClassOf(obj)) \cup ClassAttrs(ClassOf(obj))

Rooms == {"room1", "room2"}

\* attributes['name'] of a piece.
AttributesName(obj) ==
  CASE obj = "room1" -> "Lab 1"
    [] obj = "room2" -> "Lab 2"
    [] obj = "player" -> "Player"
    [] OTHER -> None

\* ------------------------------------------------------------ text lines
Quit == <<"q", "u", "i", "t">>
Look == <<"l", "o", "o", "k">>

Whitespace == {" "}

lower_char(c) ==
  CASE c = "Q" -> "q" [] c = "U" -> "u" [] c = "I" -> "i" [] c = "T" -> "t"
    [] OTHER -> c

lower(s) == [k \in 1..Len(s) |-> lower_char(s[k])]

RECURSIVE lstrip(_)
lstrip(s) ==
  IF s # <<>> /\ Head(s) \in Whitespace THEN lstrip(Tail(s)) ELSE s

RECURSIVE rstrip(_)
rstrip(s) ==
  IF s # <<>> /\ s[Len(s)] \in Whitespace
  THEN rstrip(SubSeq(s, 1, Len(s) - 1)) ELSE s

strip(s) == rstrip(lstrip(s))

\* --------------------------------------------------------------- vectors
Some(n) == <<n>>
Nil == <<>>

Vector(x, y) == [given |-> TRUE, x |-> x, y |-> y]
NoLocation == [given |-> FALSE, x |-> Nil, y |-> Nil]

\* A validity test by truthiness, under which the coordinate 0 is missing.
is_valid_truthy(v) == v.x \notin {Nil, Some(0)} /\ v.y \notin {Nil, Some(0)}

is_valid(v) == v.x # Nil /\ v.y # Nil

\* `if location and location.is_valid()`: None is falsy, a Vector is truthy.
LocationUsable(location) == location.given /\ is_valid(location)

\* An indexing that wraps around the end of the list.
PyIndex_wraps(n, k) == Some(k % n)

\* Python list indexing: a negative index counts from the end; <<>> stands
\* for IndexError.
PyIndex(n, k) ==
  IF k >= 0 /\ k < n THEN Some(k)
  ELSE IF k < 0 /\ k >= -n THEN Some(k + n)
  ELSE Nil

\* ------------------------------------------------------------------ grid
EmptyGrid(size_x, size_y) ==
  [y \in 0..(size_y - 1) |-> [x \in 0..(size_x - 1) |-> None]]

\* A scan with the loops nested the other way round: column by column.
RECURSIVE ScanColumnsFrom(_, _, _, _)
ScanColumnsFrom(grid, size, y, x) ==
  IF x >= size.x THEN [found |-> FALSE, x |-> 0, y |-> 0]
  ELSE IF y >= size.y THEN ScanColumnsFrom(grid, size, 0, x + 1)
  ELSE IF grid[y][x] = None THEN [found |-> TRUE, x |-> x, y |-> y]
  ELSE ScanColumnsFrom(grid, size, y + 1, x)

RECURSIVE ScanFrom(_, _, _, _)
ScanFrom(grid, size, y, x) ==
  IF y >= size.y THEN [found |-> FALSE, x |-> 0, y |-> 0]
  ELSE IF x >= size.x THEN ScanFrom(grid, size, y + 1, 0)
  ELSE IF grid[y][x] = None THEN [found |-> TRUE, x |-> x, y |-> y]
  ELSE ScanFrom(grid, size, y, x + 1)

\* An add_to_first_empty_space that gives a full grid one more row.
add_to_first_empty_space_grows(grid, size, element) ==
  LET s == ScanFrom(grid, size, 0, 0)
  IN  IF s.found
      THEN [grid |-> [grid EXCEPT ![s.y][s.x] = element], ret |-> TRUE]
      ELSE [grid |-> [y \in 0..size.y |->
                        IF y < size.y THEN grid[y]
                        ELSE [x \in 0..(size.x - 1) |->
                                IF x = 0 THEN element ELSE None]],
            ret |-> TRUE]

add_to_first_empty_space(grid, size, element) ==
  LET s == ScanFrom(grid, size, 0, 0)
  IN  IF s.found
      THEN [grid |-> [grid EXCEPT ![s.y][s.x] = element], ret |-> TRUE]
      ELSE [grid |-> grid, ret |-> FALSE]

\* An add_room that falls back only when no location is passed: a Vector
\* with a missing coordinate places nothing.
add_room_ignores_partial_vector(grid, size, room_piece, location) ==
  IF LocationUsable(location)
  THEN LET yy == PyIndex(size.y, location.y[1])
           xx == PyIndex(size.x, location.x[1])
       IN  IF yy = Nil \/ xx = Nil
           THEN [grid |-> grid, err |-> "IndexError", out |-> <<>>]
           ELSE IF grid[yy[1]][xx[1]] = None
           THEN [grid |-> [grid EXCEPT ![yy[1]][xx[1]] = room_piece],
                 err |-> "none",
                 out |-> <<<<"Room added", AttributesName(room_piece)>>>>]
           ELSE [grid |-> grid, err |-> "none",
                 out |-> <<<<"Location is already occupied">>>>]
  ELSE IF location.given
  THEN [grid |-> grid, err |-> "none", out |-> <<>>]
  ELSE LET r == add_to_first_empty_space(grid, size, room_piece)
       IN  [grid |-> r.grid, err |-> "none",
            out |-> IF r.ret THEN <<>> ELSE <<<<"No room available">>>>]

\* An add_room whose fallback is not under the else: it runs after a
\* placement at the location too.
add_room_then_fallback(grid, size, room_piece, location) ==
  LET placed ==
        IF LocationUsable(location)
        THEN LET yy == PyIndex(size.y, location.y[1])
                 xx == PyIndex(size.x, location.x[1])
             IN  IF yy = Nil \/ xx = Nil
                 THEN [grid |-> grid, err |-> "IndexError", out |-> <<>>]
                 ELSE IF grid[yy[1]][xx[1]] = None
                 THEN [grid |-> [grid EXCEPT ![yy[1]][xx[1]] = room_piece],
                       err |-> "none",
                       out |-> <<<<"Room added",
                                   AttributesName(room_piece)>>>>]
                 ELSE [grid |-> grid, err |-> "none",
                       out |-> <<<<"Location is already occupied">>>>]
        ELSE [grid |-> grid, err |-> "none", out |-> <<>>]
      r == add_to_first_empty_space(placed.grid, size, room_piece)
  IN  IF placed.err # "none" THEN placed
      ELSE [grid |-> r.grid, err |-> "none",
            out |-> IF r.ret THEN placed.out
                    ELSE placed.out \o <<<<"No room available">>>>]

add_room(grid, size, room_piece, location) ==
  IF LocationUsable(location)
  THEN LET yy == PyIndex(size.y, location.y[1])
           xx == PyIndex(size.x, location.x[1])
       IN  IF yy = Nil \/ xx = Nil
           THEN [grid |-> grid, err |-> "IndexError", out |-> <<>>]
           ELSE IF grid[yy[1]][xx[1]] = None
           THEN [grid |-> [grid EXCEPT ![yy[1]][xx[1]] = room_piece],
                 err |-> IF HasAttr(room_piece, "attributes")
                         THEN "none" ELSE "AttributeError",
                 out |-> IF HasAttr(room_piece, "attributes")
                         THEN <<<<"Room added", AttributesName(room_piece)>>>>
                         ELSE <<>>]
           ELSE [grid |-> grid, err |-> "none",
                 out |-> <<<<"Location is already occupied">>>>]
  ELSE LET r == add_to_first_empty_space(grid, size, room_piece)
       IN  [grid |-> r.grid, err |-> "none",
            out |-> IF r.ret THEN <<>> ELSE <<<<"No room available">>>>]

\* A remove_room that empties the whole row of the location.
remove_room_clears_row(grid, size, location) ==
  IF LocationUsable(location)
  THEN LET yy == PyIndex(size.y, location.y[1])
           xx == PyIndex(size.x, location.x[1])
       IN  IF yy = Nil \/ xx = Nil
           THEN [grid |-> grid, err |-> "IndexError", out |-> <<>>]
           ELSE IF grid[yy[1]][xx[1]] # None
           THEN [grid |-> [grid EXCEPT
                             ![yy[1]] = [x \in 0..(size.x - 1) |-> None]],
                 err |-> "none",
                 out |-> <<<<"Room removed",
                             AttributesName(grid[yy[1]][xx[1]])>>>>]
           ELSE [grid |-> grid, err |-> "none", out |-> <<>>]
  ELSE [grid |-> grid, err |-> "none", out |-> <<>>]

remove_room(grid, size, location) ==
  IF LocationUsable(location)
  THEN LET yy == PyIndex(size.y, location.y[1])
           xx == PyIndex(size.x, location.x[1])
       IN  IF yy = Nil \/ xx = Nil
           THEN [grid |-> grid, err |-> "IndexError", out |-> <<>>]
           ELSE IF grid[yy[1]][xx[1]] # None
           THEN LET room_piece == grid[yy[1]][xx[1]]
                IN  [grid |-> [grid EXCEPT ![yy[1]][xx[1]] = None],
                     err |-> IF HasAttr(room_piece, "attributes")
                             THEN "none" ELSE "AttributeError",
                     out |-> IF HasAttr(room_piece, "attributes")
                             THEN <<<<"Room removed",
                                      AttributesName(room_piece)>>>>
                             ELSE <<>>]
           ELSE [grid |-> grid, err |-> "none", out |-> <<>>]
  ELSE [grid |-> grid, err |-> "none", out |-> <<>>]

\* `room.name if room else "Empty"`: <<>> stands for AttributeError.
CellText(room) ==
  IF room # None
  THEN IF HasAttr(room, "name") THEN Some(AttributesName(room)) ELSE Nil
  ELSE Some("Empty")

\* One row of the display: the cell texts that " | ".join puts on a line.
RowFails(grid, size, y) ==
  \E x \in 0..(size.x - 1) : CellText(grid[y][x]) = Nil

RowLine(grid, size, y) ==
  [k \in 1..size.x |-> CellText(grid[y][k - 1])[1]]

RECURSIVE RenderFrom(_, _, _, _)
RenderFrom(grid, size, y, printed) ==
  IF y >= size.y THEN [out |-> printed, err |-> "none"]
  ELSE IF RowFails(grid, size, y)
  THEN [out |-> printed, err |-> "AttributeError"]
  ELSE RenderFrom(grid, size, y + 1, Append(printed, RowLine(grid, size, y)))

\* MapGridModule.execute: what it prints and how it ends.
map_execute(grid, size) == RenderFrom(grid, size, 0, <<<<"Map Grid:">>>>)

\* ----------------------------------------------------------------- state
VARIABLES
  modules,      \* GameEngine.modules: the registered modules, in order
  running,      \* GameEngine.running
  commands,     \* InputMapModule.commands: trigger -> command
  size_vector,  \* MapGridModule.size_vector
  map_grid,     \* MapGridModule.map_grid[y][x]: a room or None
  pc,           \* where main is: "setup", "loop", "tick", "returned", "raised"
  index,        \* the position of update_modules in the module list
  ticks,        \* the number of ticks started by run
  stdin,        \* the lines supplied on standard input
  reads,        \* the number of lines input() has consumed
  last          \* the call made last: receiver, arguments, state before, outcome
                \* (origin: the state before the add_room that a remove_room
                \* of the same location follows)
VARIABLES
  executed,     \* the modules update_modules has executed in this tick
  stopped_by,   \* what has assigned False to running so far
  adds          \* the arguments of the add_command calls, in order

vars ==
  <<modules, running, commands, size_vector, map_grid, pc, index, ticks,
    stdin, reads, last, executed, stopped_by, adds>>

engine_vars == <<modules, running>>
run_vars == <<pc, index, ticks, stdin, reads, executed>>

\* The state of the three objects, as a call finds it.
Snapshot ==
  [modules |-> modules, running |-> running, commands |-> commands,
   map_grid |-> map_grid, reads |-> reads]

\* A call record with nothing passed, printed, returned or raised.
Call(op, obj) ==
  [op |-> op, obj |-> obj, element |-> None, location |-> NoLocation,
   line |-> <<>>, ret |-> None, err |-> "none", out |-> <<>>,
   invoked |-> <<>>, origin |-> Nil, pre |-> Snapshot]

NoCommands == [t \in {} |-> None]

\* GameEngine(), InputMapModule() and MapGridModule(size_x, size_y).
Construct(size_x, size_y) ==
  /\ modules = <<>>
  /\ running = TRUE
  /\ commands = NoCommands
  /\ size_vector = [x |-> size_x, y |-> size_y]
  /\ map_grid = EmptyGrid(size_x, size_y)
  /\ pc = "setup"
  /\ index = 0
  /\ ticks = 0
  /\ stdin = <<>>
  /\ reads = 0
  /\ last = [op |-> "__init__", obj |-> None, element |-> None,
             location |-> NoLocation, line |-> <<>>, ret |-> None,
             err |-> "none", out |-> <<>>, invoked |-> <<>>,
             origin |-> Nil,
             pre |-> [modules |-> <<>>, running |-> TRUE,
                      commands |-> NoCommands,
                      map_grid |-> EmptyGrid(size_x, size_y), reads |-> 0]]
  /\ executed = <<>>
  /\ stopped_by = {}
  /\ adds = <<>>

\* ----------------------------------------------------- MapGridModule calls
\* The coordinates a caller passes for an axis of length n: missing, every
\* index of the axis, and the first index past it.
Coords(n) == {Nil} \cup {Some(k) : k \in 0..n}

Locations ==
  {NoLocation} \cup
  {Vector(x, y) : x \in Coords(size_vector.x), y \in Coords(size_vector.y)}

BoolText(b) == IF b THEN "True" ELSE "False"

AddToFirstEmptySpace(element) ==
  LET r == add_to_first_empty_space(map_grid, size_vector, element)
  IN  /\ pc = "setup"
      /\ map_grid' = r.grid
      /\ last' = [Call("add_to_first_empty_space", "map_module") EXCEPT
                    !.element = element, !.ret = BoolText(r.ret)]
      /\ UNCHANGED <<engine_vars, commands, size_vector, run_vars,
                     stopped_by, adds>>

AddRoom(room_piece, location) ==
  LET r == add_room(map_grid, size_vector, room_piece, location)
  IN  /\ pc = "setup"
      /\ map_grid' = r.grid
      /\ last' = [Call("add_room", "map_module") EXCEPT
                    !.element = room_piece, !.location = location,
                    !.err = r.err, !.out = r.out]
      /\ UNCHANGED <<engine_vars, commands, size_vector, run_vars,
                     stopped_by, adds>>

\* The grid as it was before the call made last, when that call was
\* add_room with this location and both coordinates; Nil after any other.
AddedJustBefore(location) ==
  IF last.op = "add_room" /\ last.location = location /\ last.err = "none"
     /\ LocationUsable(location)
  THEN Some(last.pre.map_grid) ELSE Nil

RemoveRoom(location) ==
  LET r == remove_room(map_grid, size_vector, location)
  IN  /\ pc = "setup"
      /\ map_grid' = r.grid
      /\ last' = [Call("remove_room", "map_module") EXCEPT
                    !.location = location, !.err = r.err, !.out = r.out,
                    !.origin = AddedJustBefore(location)]
      /\ UNCHANGED <<engine_vars, commands, size_vector, run_vars,
                     stopped_by, adds>>

\* MapGridModule.execute called directly.
MapGridExecute ==
  LET r == map_execute(map_grid, size_vector)
  IN  /\ pc = "setup"
      /\ last' = [Call("execute", "map_module") EXCEPT
                    !.err = r.err, !.out = r.out]
      /\ UNCHANGED <<engine_vars, commands, size_vector, map_grid, run_vars,
                     stopped_by, adds>>

\* A MapGridModule of every shape up to MaxCells cells, and its callers.
InitGrid ==
  \E size_x \in 1..MaxCells, size_y \in 1..MaxCells :
    /\ size_x * size_y <= MaxCells
    /\ Construct(size_x, size_y)

NextGrid ==
  \/ \E element \in Rooms : AddToFirstEmptySpace(element)
  \/ \E room_piece \in Rooms, location \in Locations :
       AddRoom(room_piece, location)
  \/ \E location \in Locations : RemoveRoom(location)
  \/ MapGridExecute

SpecGrid == InitGrid /\ [][NextGrid]_vars

\* ------------------------------------------------------ InputMapModule
\* command.trigger, as the constructors set it.
trigger(command) == IF ClassOf(command) = "QuitCommand" THEN Quit ELSE Look

\* dict.get: the value stored under the key, or None.
get(dict, key) == IF key \in DOMAIN dict THEN dict[key] ELSE None

\* A store that keeps the value a key already has.
put_if_absent(dict, key, value) ==
  [t \in DOMAIN dict \cup {key} |->
     IF t \in DOMAIN dict THEN dict[t] ELSE value]

\* dict[key] = value.
put(dict, key, value) ==
  [t \in DOMAIN dict \cup {key} |-> IF t = key THEN value ELSE dict[t]]

\* command.<method>() on a registered command: the outcome for the engine.
CommandCall(command, method, run) ==
  IF ~HasAttr(command, method)
  THEN [running |-> run, err |-> "AttributeError", out |-> <<>>,
        invoked |-> <<>>]
  ELSE IF method = "update" /\ ClassOf(command) = "QuitCommand"
  THEN [running |-> FALSE, err |-> "none",
        out |-> <<<<"Thank you for playing!">>>>, invoked |-> <<command>>]
  ELSE IF method = "update"
  THEN [running |-> run, err |-> "none", out |-> <<>>,
        invoked |-> <<command>>]
  ELSE [running |-> run, err |-> "none", out |-> <<>>, invoked |-> <<>>]

\* A dispatch that trims and lowercases what it is given before the lookup.
process_command_normalizing(dict, run, user_input) ==
  LET command == get(dict, lower(strip(user_input)))
  IN  IF command # None
      THEN CommandCall(command, "execute", run)
      ELSE [running |-> run, err |-> "none",
            out |-> <<<<"This command cannot be understood.">>>>,
            invoked |-> <<>>]

process_command(dict, run, user_input) ==
  LET command == get(dict, user_input)
  IN  IF command # None
      THEN CommandCall(command, "execute", run)
      ELSE [running |-> run, err |-> "none",
            out |-> <<<<"This command cannot be understood.">>>>,
            invoked |-> <<>>]

\* self.<method>(user_input) on the InputMapModule.
SelfCall(method, dict, run, user_input) ==
  IF ~HasAttr("input_map_module", method)
  THEN [running |-> run, err |-> "AttributeError", out |-> <<>>,
        invoked |-> <<>>]
  ELSE IF method = "process_command"
  THEN process_command(dict, run, user_input)
  ELSE [running |-> run, err |-> "none", out |-> <<>>, invoked |-> <<>>]

\* An execute that hands the line to process_command.
input_execute_dispatching(dict, run, waiting) ==
  IF waiting = <<>>
  THEN [running |-> run, err |-> "EOFError", out |-> <<>>, invoked |-> <<>>,
        consumed |-> 0, line |-> <<>>]
  ELSE LET user_input == lower(strip(Head(waiting)))
           r == SelfCall("process_command", dict, run, user_input)
       IN  [running |-> r.running, err |-> r.err, out |-> r.out,
            invoked |-> r.invoked, consumed |-> 1, line |-> Head(waiting)]

\* InputMapModule.execute with `waiting` the lines not yet consumed.
input_execute(dict, run, waiting) ==
  IF waiting = <<>>
  THEN [running |-> run, err |-> "EOFError", out |-> <<>>, invoked |-> <<>>,
        consumed |-> 0, line |-> <<>>]
  ELSE LET user_input == lower(strip(Head(waiting)))
           r == SelfCall("handle_input", dict, run, user_input)
       IN  [running |-> r.running, err |-> r.err, out |-> r.out,
            invoked |-> r.invoked, consumed |-> 1, line |-> Head(waiting)]

AddCommand(command) ==
  /\ pc = "setup"
  /\ IF isinstance(command, "Command")
     THEN /\ commands' = put(commands, trigger(command), command)
          /\ last' = [Call("add_command", "input_map_module") EXCEPT
                        !.element = command]
     ELSE /\ commands' = commands
          /\ last' = [Call("add_command", "input_map_module") EXCEPT
                        !.element = command, !.err = "TypeError"]
  /\ UNCHANGED <<engine_vars, size_vector, map_grid, run_vars, stopped_by>>

\* What a call that ran these commands' effects adds to stopped_by.
Stops(invoked) ==
  IF \E k \in 1..Len(invoked) : ClassOf(invoked[k]) = "QuitCommand"
  THEN {"QuitCommand.update"} ELSE {}

ProcessCommand(user_input) ==
  LET r == process_command(commands, running, user_input)
  IN  /\ pc = "setup"
      /\ running' = r.running
      /\ last' = [Call("process_command", "input_map_module") EXCEPT
                    !.line = user_input, !.err = r.err, !.out = r.out,
                    !.invoked = r.invoked]
      /\ stopped_by' = stopped_by \cup Stops(r.invoked)
      /\ UNCHANGED <<modules, commands, size_vector, map_grid, run_vars, adds>>

\* command.update() called directly.
Update(command) ==
  LET r == CommandCall(command, "update", running)
  IN  /\ pc = "setup"
      /\ running' = r.running
      /\ last' = [Call("update", command) EXCEPT
                    !.err = r.err, !.out = r.out, !.invoked = r.invoked]
      /\ stopped_by' = stopped_by \cup Stops(r.invoked)
      /\ UNCHANGED <<modules, commands, size_vector, map_grid, run_vars, adds>>

\* ---------------------------------------------------------- GameEngine
AddModule(module) ==
  /\ pc = "setup"
  /\ IF isinstance(module, "Module")
     THEN /\ Len(modules) < MaxModules
          /\ modules' = Append(modules, module)
          /\ last' = [Call("add_module", "engine") EXCEPT !.element = module]
     ELSE /\ modules' = modules
          /\ last' = [Call("add_module", "engine") EXCEPT
                        !.element = module, !.err = "TypeError"]
  /\ UNCHANGED <<running, commands, size_vector, map_grid, run_vars,
                 stopped_by, adds>>

\* `except Exception`.
Caught(err) == IsSubclass(err, "Exception")

\* The lines a user may type.
Lines == {Quit, <<" ", "Q", "U", "I", "T", " ">>, Look, <<"x">>}

RECURSIVE InputsOfLen(_)
InputsOfLen(n) ==
  IF n = 0 THEN {<<>>}
  ELSE {Append(s, l) : s \in InputsOfLen(n - 1), l \in Lines}

Inputs == UNION {InputsOfLen(n) : n \in 0..MaxInput}

\* A run that sets the flag when it is entered.
Run_sets_flag(input) ==
  /\ pc = "setup"
  /\ pc' = "loop"
  /\ stdin' = input
  /\ running' = TRUE
  /\ last' = [Call("run", "engine") EXCEPT
                !.out = <<<<"Game starting. Type 'quit' to exit.">>>>]
  /\ UNCHANGED <<modules, commands, size_vector, map_grid, index, ticks,
                 reads, executed, stopped_by, adds>>

\* engine.run() is entered, with `input` waiting on standard input.
Run(input) ==
  /\ pc = "setup"
  /\ pc' = "loop"
  /\ stdin' = input
  /\ last' = [Call("run", "engine") EXCEPT
                !.out = <<<<"Game starting. Type 'quit' to exit.">>>>]
  /\ UNCHANGED <<engine_vars, commands, size_vector, map_grid, index, ticks,
                 reads, executed, stopped_by, adds>>

\* A tick whose loop over the modules starts at the second one.
StartTick_from_second ==
  /\ pc = "loop"
  /\ running
  /\ ticks < MaxTicks
  /\ ticks' = ticks + 1
  /\ pc' = IF modules = <<>> THEN "loop" ELSE "tick"
  /\ index' = IF modules = <<>> THEN 0 ELSE IF Len(modules) > 1 THEN 2 ELSE 1
  /\ executed' = <<>>
  /\ UNCHANGED <<engine_vars, commands, size_vector, map_grid, stdin, reads,
                 last, stopped_by, adds>>

\* A run that returns once a tick found no module to execute.
StartTick_stops_when_idle ==
  /\ pc = "loop"
  /\ running
  /\ ticks < MaxTicks
  /\ ticks' = ticks + 1
  /\ pc' = IF modules = <<>> THEN "returned" ELSE "tick"
  /\ index' = IF modules = <<>> THEN 0 ELSE 1
  /\ executed' = <<>>
  /\ UNCHANGED <<engine_vars, commands, size_vector, map_grid, stdin, reads,
                 last, stopped_by, adds>>

\* `while self.running` holds: update_modules is entered.
StartTick ==
  /\ pc = "loop"
  /\ running
  /\ ticks < MaxTicks
  /\ ticks' = ticks + 1
  /\ pc' = IF modules = <<>> THEN "loop" ELSE "tick"
  /\ index' = IF modules = <<>> THEN 0 ELSE 1
  /\ executed' = <<>>
  /\ UNCHANGED <<engine_vars, commands, size_vector, map_grid, stdin, reads,
                 last, stopped_by, adds>>

\* `while self.running` fails: run returns.
Return ==
  /\ pc = "loop"
  /\ ~running
  /\ pc' = "returned"
  /\ UNCHANGED <<engine_vars, commands, size_vector, map_grid, index, ticks,
                 stdin, reads, last, executed, stopped_by, adds>>

\* module.execute() for the module update_modules has come to.
module_execute(module) ==
  IF ClassOf(module) = "MapGridModule"
  THEN LET r == map_execute(map_grid, size_vector)
       IN  [running |-> running, err |-> r.err, out |-> r.out,
            invoked |-> <<>>, consumed |-> 0, line |-> <<>>]
  ELSE IF ClassOf(module) = "QuitModule"
  THEN LET r == CommandCall("quit1", "update", running)
       IN  [running |-> r.running, err |-> r.err, out |-> r.out,
            invoked |-> r.invoked, consumed |-> 0, line |-> <<>>]
  ELSE input_execute(commands, running, SubSeq(stdin, reads + 1, Len(stdin)))

\* A handler that reports the error and leaves the flag alone.
handle_error_keeps_running(run) == run

\* handle_error: the flag after an exception reached run.
handle_error(run) == FALSE

\* An update_modules that leaves its loop once running is false.
ExecuteModule_checks_flag ==
  LET module == modules[index]
      r == module_execute(module)
  IN  /\ pc = "tick"
      /\ reads' = reads + r.consumed
      /\ last' = [Call("execute", module) EXCEPT
                    !.line = r.line, !.err = r.err, !.out = r.out,
                    !.invoked = r.invoked]
      /\ stopped_by' = stopped_by \cup Stops(r.invoked) \cup
                         (IF r.err # "none" /\ Caught(r.err)
                          THEN {"handle_error"} ELSE {})
      /\ IF r.err = "none"
         THEN /\ running' = r.running
              /\ pc' = IF index < Len(modules) /\ r.running
                       THEN "tick" ELSE "loop"
              /\ index' = IF index < Len(modules) /\ r.running
                          THEN index + 1 ELSE 0
         ELSE /\ running' = handle_error(r.running)
              /\ pc' = "loop"
              /\ index' = 0
      /\ executed' = Append(executed,
                            [index |-> index, module |-> module,
                             err |-> r.err, running |-> running'])
      /\ UNCHANGED <<modules, commands, size_vector, map_grid, ticks, stdin,
                     adds>>

\* One module of the tick executes; an exception ends the tick in the
\* handler of run.
ExecuteModule ==
  LET module == modules[index]
      r == module_execute(module)
  IN  /\ pc = "tick"
      /\ reads' = reads + r.consumed
      /\ last' = [Call("execute", module) EXCEPT
                    !.line = r.line, !.err = r.err, !.out = r.out,
                    !.invoked = r.invoked]
      /\ stopped_by' = stopped_by \cup Stops(r.invoked) \cup
                         (IF r.err # "none" /\ Caught(r.err)
                          THEN {"handle_error"} ELSE {})
      /\ IF r.err = "none"
         THEN /\ running' = r.running
              /\ pc' = IF index < Len(modules) THEN "tick" ELSE "loop"
              /\ index' = IF index < Len(modules) THEN index + 1 ELSE 0
         ELSE IF Caught(r.err)
         THEN /\ running' = handle_error(r.running)
              /\ pc' = "loop"
              /\ index' = 0
         ELSE /\ running' = r.running
              /\ pc' = "raised"
              /\ index' = 0
      /\ executed' = Append(executed,
                            [index |-> index, module |-> module,
                             err |-> r.err, running |-> running'])
      /\ UNCHANGED <<modules, commands, size_vector, map_grid, ticks, stdin,
                     adds>>

\* --------------------------------------------------------- the program
\* main's grid is 2 by 2 and its rooms go to (0, 0) and (1, 0).
MainSizeX == 2
MainSizeY == 2
MainLocations == {Vector(Some(0), Some(0)), Vector(Some(1), Some(0))}

ModuleArgs == {"map_module", "input_map_module", "room1", "quit1"}
CommandArgs == {"quit1", "quit2", "look1", "room1", "input_map_module"}
Commands == {"quit1", "quit2", "look1"}

Init == Construct(MainSizeX, MainSizeY)

Next ==
  \/ \E module \in ModuleArgs : AddModule(module)
  \/ \E command \in CommandArgs : AddCommand(command) /\ UNCHANGED adds
  \/ \E room_piece \in Rooms, location \in MainLocations :
       AddRoom(room_piece, location)
  \/ \E user_input \in Lines : ProcessCommand(user_input)
  \/ \E command \in Commands : Update(command)
  \/ \E input \in Inputs : Run(input)
  \/ StartTick
  \/ ExecuteModule
  \/ Return

Spec == Init /\ [][Next]_vars

\* An engine whose modules are the map, the input map and a module that
\* quits, registered in any order and run.
TickModuleArgs == {"map_module", "input_map_module", "quit_module"}

NextTick ==
  \/ \E module \in TickModuleArgs : AddModule(module)
  \/ \E input \in Inputs : Run(input)
  \/ StartTick
  \/ ExecuteModule
  \/ Return

SpecTick == Init /\ [][NextTick]_vars

\* An InputMapModule and its callers; the add_command calls are recorded.
RecordedAddCommand(command) ==
  /\ Len(adds) < MaxAdds
  /\ AddCommand(command)
  /\ adds' = Append(adds, command)

NextInput ==
  \/ \E command \in CommandArgs : RecordedAddCommand(command)
  \/ \E user_input \in Lines : ProcessCommand(user_input)
  \/ \E command \in Commands : Update(command)

SpecInput == Init /\ [][NextInput]_vars

\* ================================================================ claims
\* The engine as main wires it: the map module with room1 at (0, 0) and
\* room2 at (1, 0), then the input module with a QuitCommand under 'quit'.
MainWiring ==
  /\ modules = <<"map_module", "input_map_module">>
  /\ map_grid = [EmptyGrid(MainSizeX, MainSizeY) EXCEPT
                   ![0] = [x \in 0..1 |-> IF x = 0 THEN "room1" ELSE "room2"]]
  /\ DOMAIN commands = {Quit}
  /\ commands[Quit] \in {"quit1", "quit2"}

\* C1: in main's wiring, when the line supplied to the first tick is "quit",
\* run returns after that one tick with running false, and the call that
\* ended the tick is the input module's execute, which read "quit", invoked
\* the QuitCommand's effect once and did not fail.
C1_QuitEndsRun ==
  (MainWiring /\ pc = "returned" /\ ticks > 0 /\ stdin # <<>>
     /\ Head(stdin) = Quit)
    => /\ ticks = 1
       /\ ~running
       /\ last.op = "execute"
       /\ last.obj = "input_map_module"
       /\ last.line = Quit
       /\ last.err = "none"
       /\ last.invoked = <<commands[Quit]>>

\* C2: once a module's execute has raised in a tick, the exception has not
\* left run, running is false, no module executes again, and the loop can
\* only return: no tick can start.
C2_ErrorIsFatal ==
  (last.op = "execute" /\ last.err # "none" /\ ticks > 0)
    => /\ ~running
       /\ pc \in {"loop", "returned"}
       /\ pc = "loop" => (ENABLED Return /\ ~ENABLED StartTick)

C2_Witness ==
  /\ pc = "returned"
  /\ ticks = 1
  /\ last.op = "execute"
  /\ last.err \in {"AttributeError", "EOFError"}
  /\ Len(modules) > 1

\* C3: process_command with an input that is a registered trigger invokes
\* that command's effect exactly once and does not fail; for a QuitCommand
\* running is false afterwards.
C3_TriggerInvokesEffect ==
  (last.op = "process_command" /\ last.line \in DOMAIN last.pre.commands)
    => /\ last.err = "none"
       /\ last.invoked = <<last.pre.commands[last.line]>>
       /\ last.pre.commands[last.line] \in {"quit1", "quit2"} => ~running

\* C4: process_command with an input that is no key of the registry invokes
\* no command, does not raise, and leaves running, the module list, the
\* registry and the grid as they were.
C4_UnknownInputChangesNothing ==
  (last.op = "process_command" /\ last.line \notin DOMAIN last.pre.commands)
    => /\ last.err = "none"
       /\ last.invoked = <<>>
       /\ last.out = <<<<"This command cannot be understood.">>>>
       /\ running = last.pre.running
       /\ modules = last.pre.modules
       /\ commands = last.pre.commands
       /\ map_grid = last.pre.map_grid

C4_Witness ==
  /\ last.op = "process_command"
  /\ last.line \notin DOMAIN commands
  /\ lower(strip(last.line)) \in DOMAIN commands
  /\ modules # <<>>
  /\ map_grid # EmptyGrid(MainSizeX, MainSizeY)
  /\ running

\* C5: add_module with a value that is no Module, and add_command with a
\* value that is no Command, raise TypeError and leave the module list,
\* respectively the registry, as it was; a Module is appended to the list
\* and a Command is stored under its trigger, other entries staying.
C5_RegistrationChecksType ==
  /\ last.op = "add_module" =>
       IF last.element \in {"map_module", "input_map_module"}
       THEN /\ last.err = "none"
            /\ modules = last.pre.modules \o <<last.element>>
       ELSE /\ last.err = "TypeError"
            /\ modules = last.pre.modules
  /\ last.op = "add_command" =>
       IF last.element \in {"quit1", "quit2", "look1"}
       THEN LET key == IF last.element = "look1" THEN Look ELSE Quit
            IN  /\ last.err = "none"
                /\ DOMAIN commands = DOMAIN last.pre.commands \cup {key}
                /\ commands[key] = last.element
                /\ \A t \in DOMAIN last.pre.commands \ {key} :
                     commands[t] = last.pre.commands[t]
       ELSE /\ last.err = "TypeError"
            /\ commands = last.pre.commands

C5_Witness ==
  /\ last.op = "add_command"
  /\ last.err = "TypeError"
  /\ Cardinality(DOMAIN commands) = 2
  /\ Len(modules) = 2

\* C6: add_to_first_empty_space puts the element in the empty cell that is
\* first in row-major order (smallest y, then smallest x), changes no other
\* cell and returns True; on a full grid it returns False and changes
\* nothing.  On a grid whose first k cells in row-major order are the only
\* occupied ones, as k calls on an empty grid leave it, the call fills cell
\* (k mod size_x, k div size_x).
C6_FirstEmptyIsRowMajor ==
  last.op = "add_to_first_empty_space" =>
    LET before == last.pre.map_grid
        cells == (0..(size_vector.x - 1)) \X (0..(size_vector.y - 1))
        empty == {c \in cells : before[c[2]][c[1]] = None}
        first == CHOOSE c \in empty :
                   \A d \in empty :
                     c[2] < d[2] \/ (c[2] = d[2] /\ c[1] <= d[1])
        filled(k) == \A c \in cells :
                       (before[c[2]][c[1]] # None)
                         <=> (c[2] * size_vector.x + c[1] < k)
    IN  /\ last.err = "none"
        /\ IF empty = {}
           THEN last.ret = "False" /\ map_grid = before
           ELSE /\ last.ret = "True"
                /\ map_grid = [before EXCEPT ![first[2]][first[1]] =
                                                last.element]
        /\ \A k \in 0..(size_vector.x * size_vector.y - 1) :
             filled(k) =>
               /\ map_grid[k \div size_vector.x][k % size_vector.x] =
                    last.element
               /\ \A c \in cells :
                    (map_grid[c[2]][c[1]] # None)
                      <=> (c[2] * size_vector.x + c[1] < k + 1)

\* The call that fills (0, 1) after (0, 0) and (1, 0) on a 2 by 2 grid.
C6_Witness ==
  /\ last.op = "add_to_first_empty_space"
  /\ last.ret = "True"
  /\ size_vector = [x |-> 2, y |-> 2]
  /\ last.pre.map_grid[0][0] # None
  /\ last.pre.map_grid[0][1] # None
  /\ last.pre.map_grid[1][0] = None
  /\ last.pre.map_grid[1][1] = None
  /\ map_grid[1][0] = last.element
  /\ map_grid[1][1] = None

\* C7: add_room with both coordinates inside the grid and the cell occupied
\* leaves every cell as it was and does not raise.
C7_OccupiedAddChangesNothing ==
  (/\ last.op = "add_room"
   /\ last.location.given
   /\ last.location.x # Nil
   /\ last.location.y # Nil
   /\ last.location.x[1] \in 0..(size_vector.x - 1)
   /\ last.location.y[1] \in 0..(size_vector.y - 1)
   /\ last.pre.map_grid[last.location.y[1]][last.location.x[1]] # None)
    => /\ map_grid = last.pre.map_grid
       /\ last.err = "none"

\* An add_room of another room at the occupied (0, 0) of a grid that still
\* has an empty cell.
C7_Witness ==
  /\ last.op = "add_room"
  /\ last.location = Vector(Some(0), Some(0))
  /\ last.pre.map_grid[0][0] \notin {None, last.element}
  /\ \E y \in DOMAIN map_grid : \E x \in DOMAIN map_grid[y] :
       map_grid[y][x] = None
  /\ last.out = <<<<"Location is already occupied">>>>

\* C8: remove_room with no location, with a Vector that lacks a coordinate,
\* or with an in-grid location whose cell is empty leaves every cell as it
\* was and does not raise; with an in-grid occupied location it empties that
\* cell and changes no other.
C8_RemoveRoomFrame ==
  last.op = "remove_room" =>
    LET loc == last.location
        before == last.pre.map_grid
        usable == loc.given /\ loc.x # Nil /\ loc.y # Nil
        inside == /\ usable
                  /\ loc.x[1] \in 0..(size_vector.x - 1)
                  /\ loc.y[1] \in 0..(size_vector.y - 1)
    IN  /\ ~usable => (map_grid = before /\ last.err = "none")
        /\ (inside /\ before[loc.y[1]][loc.x[1]] = None)
             => (map_grid = before /\ last.err = "none")
        /\ (inside /\ before[loc.y[1]][loc.x[1]] # None)
             => /\ map_grid = [before EXCEPT ![loc.y[1]][loc.x[1]] = None]
                /\ last.err = "none"

\* A removal from an occupied cell whose row holds another room.
C8_Witness ==
  /\ last.op = "remove_room"
  /\ last.out # <<>>
  /\ size_vector.x > 1
  /\ LocationUsable(last.location)
  /\ map_grid[last.location.y[1]][last.location.x[1]] = None
  /\ \E x \in 0..(size_vector.x - 1) : map_grid[last.location.y[1]][x] # None

\* C9: add_room(room, (x, y)) followed by remove_room((x, y)) for an in-grid
\* (x, y) leaves cell (x, y) empty; when the cell was empty before the add,
\* the grid after the remove is the grid before the add and execute gives
\* the same output and outcome on both.
C9_AddThenRemoveRoundTrip ==
  (/\ last.op = "remove_room"
   /\ last.origin # Nil
   /\ last.location.x[1] \in 0..(size_vector.x - 1)
   /\ last.location.y[1] \in 0..(size_vector.y - 1))
    => LET x == last.location.x[1]
           y == last.location.y[1]
           before == last.origin[1]
       IN  /\ map_grid[y][x] = None
           /\ before[y][x] = None =>
                /\ map_grid = before
                /\ map_execute(map_grid, size_vector) =
                     map_execute(before, size_vector)

\* A round trip through an empty cell that is not the first empty one.
C9_Witness ==
  /\ last.op = "remove_room"
  /\ last.origin # Nil
  /\ last.out # <<>>
  /\ last.origin[1][last.location.y[1]][last.location.x[1]] = None
  /\ last.origin[1][0][0] = None
  /\ last.location # Vector(Some(0), Some(0))

\* C10: MapGridModule.execute does not fail, prints the heading and one
\* line per row in which each cell is the name of its room or "Empty", and
\* leaves the grid as it was.
C10_ExecuteRendersEveryRow ==
  (last.op = "execute" /\ last.obj = "map_module") =>
    /\ last.err = "none"
    /\ map_grid = last.pre.map_grid
    /\ Len(last.out) = 1 + size_vector.y
    /\ \A y \in 0..(size_vector.y - 1) :
         /\ Len(last.out[y + 2]) = size_vector.x
         /\ \A x \in 0..(size_vector.x - 1) :
              last.out[y + 2][x + 1] =
                CASE map_grid[y][x] = "room1" -> "Lab 1"
                  [] map_grid[y][x] = "room2" -> "Lab 2"
                  [] OTHER -> "Empty"

\* C11: in every tick, the modules executed so far are the first modules of
\* the list, each once and in the order of registration, and none but the
\* last of them has failed; while the tick goes on the next module to execute
\* is the one after them; a tick is over when every module has executed or
\* when the module executed last has failed, the ones after it not executing.
C11_ModulesExecuteInOrder ==
  /\ Len(executed) <= Len(modules)
  /\ \A k \in 1..Len(executed) :
       /\ executed[k].index = k
       /\ executed[k].module = modules[k]
       /\ k < Len(executed) => executed[k].err = "none"
  /\ pc = "tick" =>
       /\ index = Len(executed) + 1
       /\ \A k \in 1..Len(executed) : executed[k].err = "none"
  /\ (pc \in {"loop", "returned"} /\ ticks > 0) =>
       \/ /\ Len(executed) = Len(modules)
          /\ \A k \in 1..(Len(executed) - 1) : executed[k].err = "none"
       \/ /\ executed # <<>>
          /\ executed[Len(executed)].err # "none"

\* A tick of two different modules that ended when the first one failed.
C11_Witness ==
  /\ pc = "returned"
  /\ ticks = 1
  /\ Len(modules) = 2
  /\ modules[1] # modules[2]
  /\ Len(executed) = 1
  /\ executed[1].err # "none"

\* C12: running is false only after a QuitCommand's update or handle_error
\* has assigned it; run has returned only with running false and cannot
\* return while running is true; an engine without modules whose flag is
\* true stays in the loop: its next step is another tick.
C12_StopsOnlyThroughFlag ==
  /\ stopped_by \subseteq {"QuitCommand.update", "handle_error"}
  /\ ~running => stopped_by # {}
  /\ "handle_error" \in stopped_by => ticks > 0
  /\ pc = "returned" => ~running
  /\ (pc = "loop" /\ running) => ~ENABLED Return
  /\ (pc = "loop" /\ running /\ modules = <<>> /\ ticks < MaxTicks)
       => ENABLED StartTick

\* An engine without modules that has gone through two ticks and is still
\* in the loop.
C12_Witness ==
  /\ pc = "loop"
  /\ modules = <<>>
  /\ ticks >= 2
  /\ running
  /\ stopped_by = {}

\* C13 as stated: every InputMapModule.execute consumes one line and fails
\* with AttributeError before any command runs, and the tick ends in
\* handle_error with running false.
C13_ExecuteConsumesLineThenFails ==
  (last.op = "execute" /\ last.obj = "input_map_module") =>
    /\ reads = last.pre.reads + 1
    /\ last.err = "AttributeError"
    /\ last.invoked = <<>>
    /\ ~running
    /\ pc \in {"loop", "returned"}
    /\ "handle_error" \in stopped_by

\* C13 as amended: every InputMapModule.execute fails before any command
\* runs: with a line waiting it consumes that line and fails with
\* AttributeError, with standard input exhausted it consumes nothing and
\* fails with EOFError; either way the tick ends in handle_error with running
\* false.
C13_ExecuteAlwaysFails ==
  (last.op = "execute" /\ last.obj = "input_map_module") =>
    /\ IF last.pre.reads < Len(stdin)
       THEN /\ reads = last.pre.reads + 1
            /\ last.line = stdin[reads]
            /\ last.err = "AttributeError"
       ELSE /\ reads = last.pre.reads
            /\ last.err = "EOFError"
    /\ last.invoked = <<>>
    /\ last.out = <<>>
    /\ ~running
    /\ pc \in {"loop", "returned"}
    /\ "handle_error" \in stopped_by

\* The line "quit" read with a QuitCommand registered under 'quit'.
C13_Witness ==
  /\ last.op = "execute"
  /\ last.obj = "input_map_module"
  /\ last.line = Quit
  /\ Quit \in DOMAIN commands
  /\ last.err = "AttributeError"
  /\ last.pre.running
  /\ pc = "returned"

\* C14: add_room with no location, or with a Vector that lacks a
\* coordinate, leaves the grid add_to_first_empty_space leaves on the same
\* state: the room in the row-major first empty cell and no other cell
\* changed; on a full grid it changes nothing; it does not raise.
C14_AddRoomFallsBackToFirstEmpty ==
  (/\ last.op = "add_room"
   /\ ~(last.location.given /\ last.location.x # Nil /\ last.location.y # Nil))
    => LET before == last.pre.map_grid
           cells == (0..(size_vector.x - 1)) \X (0..(size_vector.y - 1))
           empty == {c \in cells : before[c[2]][c[1]] = None}
           first == CHOOSE c \in empty :
                      \A d \in empty :
                        c[2] < d[2] \/ (c[2] = d[2] /\ c[1] <= d[1])
       IN  /\ last.err = "none"
           /\ map_grid =
                add_to_first_empty_space(before, size_vector,
                                         last.element).grid
           /\ IF empty = {}
              THEN map_grid = before
              ELSE map_grid = [before EXCEPT ![first[2]][first[1]] =
                                               last.element]

\* An add_room with a Vector without x that lands behind an occupied (0, 0).
C14_Witness ==
  /\ last.op = "add_room"
  /\ last.location.given
  /\ last.location.x = Nil
  /\ last.location.y # Nil
  /\ last.pre.map_grid[0][0] # None
  /\ map_grid # last.pre.map_grid

\* C15: after any sequence of add_command calls the registry has exactly the
\* triggers of the commands passed, and each trigger maps to the command
\* passed last with that trigger.
C15_LastAddedCommandWins ==
  LET key(c) == IF c = "look1" THEN Look ELSE Quit
      added == {k \in 1..Len(adds) : adds[k] \in {"quit1", "quit2", "look1"}}
      latest(t) == CHOOSE k \in added :
                     /\ key(adds[k]) = t
                     /\ \A j \in added : key(adds[j]) = t => j <= k
  IN  /\ DOMAIN commands = {key(adds[k]) : k \in added}
      /\ \A t \in DOMAIN commands : commands[t] = adds[latest(t)]

\* Three adds of which the third replaces the first.
C15_Witness ==
  /\ adds = <<"quit1", "look1", "quit2">>
  /\ commands[Quit] = "quit2"
  /\ commands[Look] = "look1"

\* C16: after any sequence of add_room, add_to_first_empty_space,
\* remove_room and execute calls the grid has size_y rows of size_x cells as
\* at construction, every cell holds a room or None, and the call made last
\* changed at most one cell.
C16_GridKeepsItsShape ==
  /\ DOMAIN map_grid = 0..(size_vector.y - 1)
  /\ DOMAIN last.pre.map_grid = DOMAIN map_grid
  /\ \A y \in DOMAIN map_grid :
       /\ DOMAIN map_grid[y] = 0..(size_vector.x - 1)
       /\ DOMAIN last.pre.map_grid[y] = DOMAIN map_grid[y]
       /\ \A x \in DOMAIN map_grid[y] : map_grid[y][x] \in Rooms \cup {None}
  /\ Cardinality({c \in (0..(size_vector.x - 1)) \X (0..(size_vector.y - 1)) :
                    map_grid[c[2]][c[1]] # last.pre.map_grid[c[2]][c[1]]}) <= 1

\* A full 2 by 2 grid that a call has just failed to add to.
C16_Witness ==
  /\ size_vector = [x |-> 2, y |-> 2]
  /\ last.op = "add_to_first_empty_space"
  /\ last.ret = "False"
  /\ \A y \in 0..1 : \A x \in 0..1 : map_grid[y][x] # None

\* C17: when a module's execute has assigned False to running without
\* raising, the tick goes on with the next module; the tick is over only
\* when every module has executed or one has failed; and after that tick no
\* tick starts: the loop can only return.
C17_FlagIsReadBetweenTicks ==
  (\E k \in 1..Len(executed) :
     executed[k].err = "none" /\ ~executed[k].running)
    => /\ ~running
       /\ pc \in {"tick", "loop", "returned"}
       /\ pc = "tick" => index = Len(executed) + 1
       /\ pc \in {"loop", "returned"} =>
            \/ Len(executed) = Len(modules)
            \/ executed[Len(executed)].err # "none"
       /\ pc = "loop" => (~ENABLED StartTick /\ ENABLED Return)

\* The quitting module first, the map module executed after it, and the run
\* returned after that one tick.
C17_Witness ==
  /\ pc = "returned"
  /\ ticks = 1
  /\ Len(executed) = 2
  /\ executed[1].module = "quit_module"
  /\ executed[1].err = "none"
  /\ ~executed[1].running
  /\ executed[2].module = "map_module"
  /\ executed[2].err = "none"

\* C18: running is true at construction, no step changes it from false to
\* true, and it is false whenever run has returned.
C18_RunningIsMonotone ==
  /\ running = TRUE
  /\ [][~running => ~running']_vars
  /\ [](pc = "returned" => ~running)

\* A run that returned after a QuitCommand's update during setup.
C18_Witness ==
  /\ pc = "returned"
  /\ ~running
  /\ stopped_by = {"QuitCommand.update"}
  /\ modules # <<>>

\* C19: add_room and remove_room with both coordinates present and x >=
\* size_x or y >= size_y raise IndexError and leave every cell as it was.
C19_OutOfGridRaises ==
  (/\ last.op \in {"add_room", "remove_room"}
   /\ last.location.given
   /\ last.location.x # Nil
   /\ last.location.y # Nil
   /\ (last.location.x[1] >= size_vector.x
         \/ last.location.y[1] >= size_vector.y))
    => /\ last.err = "IndexError"
       /\ map_grid = last.pre.map_grid

\* A remove_room one column past the row of an occupied cell.
C19_Witness ==
  /\ last.op = "remove_room"
  /\ last.location.x = Some(size_vector.x)
  /\ last.location.y = Some(0)
  /\ map_grid[0][size_vector.x - 1] # None
  /\ last.err = "IndexError"

====
